---- MODULE Spec2Model ----
(***************************************************************************)
(* Model of shdocgen.py (mkdocstrings-sh): parse_stream, its helpers       *)
(* _convert_arg_option, _convert_see, traverse, and find_name.             *)
(*                                                                         *)
(* Python strings are TLA+ strings (Len, SubSeq and \o act on them).       *)
(* Python values are tagged records [k, v]: a str, a list, a dict holding  *)
(* an option pair, None, or a reference to a node object of the heap.      *)
(* A dict is a function from its keys (strings) to values.  Mutable dicts  *)
(* that the ancestor stack and the tree share live in `heap`; heap[1] is   *)
(* the root.                                                               *)
(***************************************************************************)
EXTENDS Integers, Sequences, FiniteSets, TLC

VARIABLES
    consumed,      \* the lines of `stream` read so far by the for loop
    includeregex,  \* the includeregex argument ("" stands for None)
    heap,          \* node objects attached so far; heap[1] is root
    parents,       \* the ancestor stack: ids of node objects
    cur,           \* the current element (a dict)
    last_tag,      \* last seen @tag, or None
    pc,            \* "loop", "returned" or "raised"
    exc,           \* name of the exception that ended the call, or ""
    log,           \* warnings emitted through log.warning
    found          \* result of find_name on the returned tree

vars == <<consumed, includeregex, heap, parents, cur, last_tag, pc, exc, log, found>>

----------------------------------------------------------------------------
(* Python values *)

NoneV == [k |-> "none", v |-> ""]
Str(s) == [k |-> "str", v |-> s]
List(xs) == [k |-> "list", v |-> xs]
Ref(id) == [k |-> "ref", v |-> id]
Pair(code, description) == [k |-> "dict", v |-> [code |-> code, description |-> description]]

EmptyDict == [x \in {} |-> NoneV]
Has(d, key) == key \in DOMAIN d
Put(d, key, val) == [x \in (DOMAIN d) \cup {key} |-> IF x = key THEN val ELSE d[x]]
Del(d, key) == [x \in (DOMAIN d) \ {key} |-> d[x]]
Update(d, e) == [x \in (DOMAIN d) \cup (DOMAIN e) |-> IF x \in DOMAIN e THEN e[x] ELSE d[x]]
Truthy(d) == DOMAIN d # {}
\* d.get(key, []) for a key that holds a list when present
GetList(d, key) == IF Has(d, key) THEN d[key].v ELSE <<>>

----------------------------------------------------------------------------
(* Characters and the regular expressions of the source, matched by hand. *)
(* A match is [m |-> TRUE, g |-> <<group 1, group 2, ...>>].               *)

Ch(s, i) == SubSeq(s, i, i)
Sub(s, a, b) == IF b < a THEN "" ELSE SubSeq(s, a, b)
At(s, i, lit) == i + Len(lit) - 1 <= Len(s) /\ SubSeq(s, i, i + Len(lit) - 1) = lit

WS == {" ", "\t", "\n", "\r", "\f"}
Lower == {"a", "b", "c", "d", "e", "f", "g", "h", "i", "j", "k", "l", "m",
          "n", "o", "p", "q", "r", "s", "t", "u", "v", "w", "x", "y", "z"}
Upper == {"A", "B", "C", "D", "E", "F", "G", "H", "I", "J", "K", "L", "M",
          "N", "O", "P", "Q", "R", "S", "T", "U", "V", "W", "X", "Y", "Z"}
Digit == {"0", "1", "2", "3", "4", "5", "6", "7", "8", "9"}
WordCh == Lower \cup Upper \cup Digit \cup {"_"}

NoMatch == [m |-> FALSE, g |-> <<>>]
Match(groups) == [m |-> TRUE, g |-> groups]

\* end of the longest run of characters of class C starting at i (C*, greedy)
RECURSIVE Span(_, _, _)
Span(s, i, C) == IF i <= Len(s) /\ Ch(s, i) \in C THEN Span(s, i + 1, C) ELSE i

\* end of the longest run of characters other than newline starting at i (.*)
RECURSIVE SpanDot(_, _)
SpanDot(s, i) == IF i <= Len(s) /\ Ch(s, i) # "\n" THEN SpanDot(s, i + 1) ELSE i

\* end of the longest run of non-whitespace characters starting at i (\S*)
RECURSIVE SpanNonWS(_, _)
SpanNonWS(s, i) == IF i <= Len(s) /\ Ch(s, i) \notin WS THEN SpanNonWS(s, i + 1) ELSE i

\* line.startswith("#")
StartsWithHash(line) == At(line, 1, "#")

\* re.search(r"^#\s@([a-z]+)\s*(.*)", line)
TagMatch(line) ==
    LET j == Span(line, 4, Lower)
        k == Span(line, j, WS)
        e == SpanDot(line, k)
    IN  IF At(line, 1, "#") /\ Len(line) >= 3 /\ Ch(line, 2) \in WS /\ Ch(line, 3) = "@" /\ j > 4
        THEN Match(<<Sub(line, 4, j - 1), Sub(line, k, e - 1)>>)
        ELSE NoMatch

\* re.search(r"^#\s+shellcheck\s+disable=(.*)", line)
ShellcheckMatch(line) ==
    LET j == Span(line, 2, WS)
        k == Span(line, j + 10, WS)
        e == SpanDot(line, k + 8)
    IN  IF At(line, 1, "#") /\ j > 2 /\ At(line, j, "shellcheck") /\ k > j + 10
           /\ At(line, k, "disable=")
        THEN Match(<<Sub(line, k + 8, e - 1)>>)
        ELSE NoMatch

\* the pattern of SpdxMatch tried at position p
SpdxAt(line, p) ==
    LET j == Span(line, p + 1, WS)
        k == Span(line, j + 24, WS)
        e == SpanDot(line, k)
    IN  IF At(line, p, "#") /\ j > p + 1 /\ At(line, j, "SPDX-License-Identifier:")
           /\ k > j + 24
        THEN Match(<<Sub(line, k, e - 1)>>)
        ELSE NoMatch

\* re.search(r"#\s+SPDX-License-Identifier:\s+(.*)", line): leftmost match
RECURSIVE SpdxFrom(_, _)
SpdxFrom(line, p) ==
    IF p > Len(line) THEN NoMatch
    ELSE IF SpdxAt(line, p).m THEN SpdxAt(line, p) ELSE SpdxFrom(line, p + 1)

SpdxMatch(line) == SpdxFrom(line, 1)

\* re.sub(r"#\s?", "", line): every "#" goes, each with one following whitespace
RECURSIVE SubHash(_, _)
SubHash(line, i) ==
    IF i > Len(line) THEN ""
    ELSE IF Ch(line, i) = "#"
         THEN IF i + 1 <= Len(line) /\ Ch(line, i + 1) \in WS
              THEN SubHash(line, i + 2)
              ELSE SubHash(line, i + 1)
         ELSE Ch(line, i) \o SubHash(line, i + 1)

StripComment(line) == SubHash(line, 1)

\* re.search(r"^function\s+(\w+)|^([a-zA-Z@_]\w+)\s*[(][)]\s+", line);
\* the result is name = m.group(1) or m.group(2)
FunctionMatch(line) ==
    LET a == Span(line, 9, WS)
        b == Span(line, a, WordCh)
        c == Span(line, 2, WordCh)
        d == Span(line, c, WS)
    IN  IF At(line, 1, "function") /\ a > 9 /\ b > a
        THEN Match(<<Sub(line, a, b - 1)>>)
        ELSE IF Len(line) >= 1 /\ Ch(line, 1) \in (Lower \cup Upper \cup {"@", "_"})
                /\ c > 2 /\ At(line, d, "()") /\ Span(line, d + 2, WS) > d + 2
             THEN Match(<<Sub(line, 1, c - 1)>>)
             ELSE NoMatch

\* re.search(r'^:\s+"?\${([a-zA-Z_][a-zA-Z_0-9]*):?=|^\s*([a-zA-Z_][a-zA-Z_0-9]*)=', line);
\* the result is name = m.group(1) or m.group(2)
VariableMatch(line) ==
    LET a == Span(line, 2, WS)
        q == IF At(line, a, "\"") THEN a + 1 ELSE a
        n1 == q + 2
        e1 == Span(line, n1, WordCh)
        f1 == IF At(line, e1, ":") THEN e1 + 1 ELSE e1
        n2 == Span(line, 1, WS)
        e2 == Span(line, n2, WordCh)
    IN  IF At(line, 1, ":") /\ a > 2 /\ At(line, q, "${") /\ e1 > n1
           /\ Ch(line, n1) \notin Digit /\ At(line, f1, "=")
        THEN Match(<<Sub(line, n1, e1 - 1)>>)
        ELSE IF e2 > n2 /\ Ch(line, n2) \notin Digit /\ At(line, e2, "=")
             THEN Match(<<Sub(line, n2, e2 - 1)>>)
             ELSE NoMatch

\* the `$` of a pattern: the end of the string, or just before its final newline
AtEnd(s, r) == r = Len(s) + 1 \/ (r = Len(s) /\ Ch(s, r) = "\n")

\* \s*(.*)$ tried from p with \s* ending at q, q - 1, ..., p; the result is group 3
RECURSIVE TailFrom(_, _, _)
TailFrom(s, p, q) ==
    IF q < p THEN NoMatch
    ELSE IF AtEnd(s, SpanDot(s, q))
         THEN Match(<<Sub(s, q, SpanDot(s, q) - 1)>>)
         ELSE TailFrom(s, p, q - 1)

TailMatch(s, p) == TailFrom(s, p, Span(s, p, WS))

\* str.strip()
RECURSIVE RStrip(_)
RStrip(s) == IF Len(s) > 0 /\ Ch(s, Len(s)) \in WS THEN RStrip(Sub(s, 1, Len(s) - 1)) ELSE s

Strip(s) == RStrip(Sub(s, Span(s, 1, WS), Len(s)))

\* re.match(r"^\s*(--?\w+\s*(<\w+>)?\s+|\[?\$\S+)\s*(.*)$", elem);
\* the result is <<m.group(1), m.group(3)>>
ArgOptionMatch(elem) ==
    LET s0 == Span(elem, 1, WS)
        \* first alternative: --?\w+\s*(<\w+>)?\s+
        w0 == IF At(elem, s0 + 1, "-") THEN s0 + 2 ELSE s0 + 1
        a == Span(elem, w0, WordCh)
        b == Span(elem, a, WS)
        gw == Span(elem, b + 1, WordCh)
        c == gw + 1
        d == Span(elem, c, WS)
        flag == At(elem, s0, "-") /\ a > w0
        withArg == flag /\ At(elem, b, "<") /\ gw > b + 1 /\ At(elem, gw, ">") /\ d > c
                        /\ TailMatch(elem, d).m
        bare == flag /\ b > a /\ TailMatch(elem, b).m
        \* second alternative: \[?\$\S+
        o == IF At(elem, s0, "[") THEN s0 + 1 ELSE s0
        e == SpanNonWS(elem, o + 1)
        env == At(elem, o, "$") /\ e > o + 1 /\ TailMatch(elem, e).m
    IN  IF withArg THEN Match(<<Sub(elem, s0, d - 1), TailMatch(elem, d).g[1]>>)
        ELSE IF bare THEN Match(<<Sub(elem, s0, b - 1), TailMatch(elem, b).g[1]>>)
        ELSE IF env THEN Match(<<Sub(elem, s0, e - 1), TailMatch(elem, e).g[1]>>)
        ELSE NoMatch

\* re.match(r"^(\w+)(.*)", elem)
SeeWordMatch(elem) ==
    LET j == Span(elem, 1, WordCh)
    IN  IF j > 1 THEN Match(<<Sub(elem, 1, j - 1), Sub(elem, j, SpanDot(elem, j) - 1)>>)
        ELSE NoMatch

\* re.match(r"https?://\S+", elem)
UrlMatch(elem) ==
    LET o == IF At(elem, 5, "s") THEN 6 ELSE 5
    IN  IF At(elem, 1, "http") /\ At(elem, o, "://") /\ SpanNonWS(elem, o + 3) > o + 3
        THEN Match(<<>>)
        ELSE NoMatch

\* str.split(",")
RECURSIVE Split(_, _)
Split(s, sep) ==
    LET i == CHOOSE i \in 1..(Len(s) + 1) :
                 /\ i = Len(s) + 1 \/ Ch(s, i) = sep
                 /\ \A j \in 1..(i - 1) : Ch(s, j) # sep
    IN  IF i = Len(s) + 1 THEN <<s>>
        ELSE <<Sub(s, 1, i - 1)>> \o Split(Sub(s, i + 1, Len(s)), sep)

\* str.isdigit()
IsDigit(x) == Len(x) > 0 /\ Span(x, 1, Digit) = Len(x) + 1

\* "SC" + x if x.isdigit() else x for x in m.group(1).strip().split(",")
ShellcheckCodes(text) ==
    LET parts == Split(Strip(text), ",")
    IN  [i \in 1..Len(parts) |-> IF IsDigit(parts[i]) THEN "SC" \o parts[i] ELSE parts[i]]

----------------------------------------------------------------------------
(* The tables of known tags *)

COMMON_TAGS == {"type", "name", "file", "lineno"}

KNOWN_TAGS(kind) ==
    CASE kind = "file" ->
           {"description", "author", "maintainer", "license", "SPDX-License-Identifier",
            "example", "data"}
      [] kind = "section" -> {"description", "example", "data", "env"}
      [] kind = "function" ->
           {"description", "option", "arg", "return", "shellcheck", "exit", "see",
            "example", "env", "set", "exitcode", "warning", "noargs", "stdout", "stdin",
            "stderr", "require"}
      [] kind = "variable" -> {"description", "example", "see", "shellcheck"}

----------------------------------------------------------------------------
(* _convert_arg_option *)

\* the body of the inner loop: what cur[key][idx] becomes
convert_entry(elem) ==
    LET mopt == ArgOptionMatch(elem.v)
    IN  IF mopt.m THEN Pair(Strip(mopt.g[1]), mopt.g[2]) ELSE Pair("", elem.v)

\* a key loop that leaves arg out
convert_keys_option_only == {"option"}

\* the keys _convert_arg_option walks
convert_keys == {"option", "arg"}

convert_arg_option(c) ==
    [key \in DOMAIN c |->
        IF key \in convert_keys
        THEN List([idx \in 1..Len(c[key].v) |-> convert_entry(c[key].v[idx])])
        ELSE c[key]]

\* the warnings _convert_arg_option logs
Warning(what, key, elem, node) == [what |-> what, key |-> key, elem |-> elem, node |-> node]

convert_warnings(c) ==
    UNION {{Warning("invalid", key, c[key].v[idx].v, 0) :
               idx \in {i \in 1..Len(c[key].v) : ~ArgOptionMatch(c[key].v[i].v).m}} :
           key \in convert_keys \cap DOMAIN c}

----------------------------------------------------------------------------
(* _convert_see *)

\* what cur["see"][idx] becomes
convert_see_entry(elem, allkeys) ==
    LET m == SeeWordMatch(elem.v)
    IN  IF m.m /\ m.g[1] \in allkeys
        THEN Str("[" \o m.g[1] \o "](#" \o m.g[1] \o ")" \o m.g[2])
        ELSE IF UrlMatch(elem.v).m
             THEN Str("[" \o elem.v \o "](" \o elem.v \o ")")
             ELSE elem

convert_see(c, allkeys) ==
    IF Has(c, "see")
    THEN Put(c, "see", List([idx \in 1..Len(c["see"].v) |-> convert_see_entry(c["see"].v[idx], allkeys)]))
    ELSE c

----------------------------------------------------------------------------
(* traverse: the items cb is called on, in order.  An item of a data list  *)
(* is a node reference, or a str when a @data tag put its text there.      *)

\* i.get("data") is truthy
HasChildren(node) == Has(node, "data") /\ Len(node["data"].v) > 0

RECURSIVE traverse_items(_, _, _)
traverse_items(h, items, i) ==
    IF i > Len(items) THEN <<>>
    ELSE LET it == items[i]
         IN  <<it>>
             \o (IF it.k = "ref" /\ HasChildren(h[it.v])
                 THEN traverse_items(h, h[it.v]["data"].v, 1)
                 ELSE <<>>)
             \o traverse_items(h, items, i + 1)

traverse(h, id) == traverse_items(h, h[id]["data"].v, 1)

\* check_node(x): "" when every assertion passes, else the exception raised
check_node(h, it) ==
    IF it.k # "ref" THEN "TypeError"
    ELSE LET x == h[it.v]
         IN  IF ~Has(x, "type") \/ ~Has(x, "name") THEN "KeyError"
             ELSE IF x["type"].k # "str" \/ x["name"].k # "str" THEN "AssertionError"
             ELSE IF x["type"].v \notin {"function", "variable", "file", "section"}
                  THEN "AssertionError"
             ELSE IF Has(x, "file") /\ x["file"].k # "str" THEN "AssertionError"
             ELSE IF Has(x, "data") /\ x["data"].k # "list" THEN "AssertionError"
             ELSE ""

\* traverse(root, check_node): the first exception raised, or ""
RECURSIVE first_failure(_, _, _)
first_failure(h, items, i) ==
    IF i > Len(items) THEN ""
    ELSE IF check_node(h, items[i]) # "" THEN check_node(h, items[i])
    ELSE first_failure(h, items, i + 1)

\* ids of the nodes traverse(root, cb) visits, in order (a checked tree holds nodes only)
visited(h) == LET items == traverse(h, 1) IN [i \in 1..Len(items) |-> items[i].v]

\* allnames: the names of the visited nodes
allnames(h) ==
    {h[visited(h)[i]]["name"].v :
        i \in {i \in 1..Len(visited(h)) :
                 /\ Has(h[visited(h)[i]], "name")
                 /\ h[visited(h)[i]]["name"].v # ""}}

\* names collected in the same traversal that rewrites: those met up to node id
see_keys_so_far(h, id) ==
    {h[visited(h)[i]]["name"].v :
        i \in {i \in 1..Len(visited(h)) : \E j \in i..Len(visited(h)) : visited(h)[j] = id}}

\* the allkeys argument the see pass hands to _convert_see for node id
see_keys(h, id) == allnames(h)

\* the nodes the see pass rewrites
see_nodes(h) == {visited(h)[i] : i \in 1..Len(visited(h))}

\* the nodes the unknown-tag pass reports on
warn_nodes(h) == {visited(h)[i] : i \in 1..Len(visited(h))}

unknown_warnings(h) ==
    UNION {{Warning("unknown", key, "", id) :
               key \in (DOMAIN h[id]) \ (KNOWN_TAGS(h[id]["type"].v) \cup COMMON_TAGS)} :
           id \in warn_nodes(h)}

\* find_name: findit overwrites obj["elem"] at every node whose name matches
RECURSIVE findit(_, _, _, _, _)
findit(h, ids, i, name, obj) ==
    IF i > Len(ids) THEN obj
    ELSE findit(h, ids, i + 1, name,
                IF h[ids[i]]["name"].v = name THEN Ref(ids[i]) ELSE obj)

find_name(h, name) == findit(h, visited(h), 1, name, NoneV)

----------------------------------------------------------------------------
(* parse_stream: the loop body for one line *)

\* cur.setdefault(last_tag, []).append(...) raises when the key holds a str
TagRaises(c, tag) == Has(c, tag) /\ c[tag].k # "list"

\* a tag-start line: lines 148 to 160
TagLine(c, tag, rest) ==
    LET c1 == Put(c, tag, List(Append(GetList(c, tag), Str(rest \o "\n"))))
        c2 == Put(c1, "type", Str(tag))
    IN  IF tag \in {"section", "file", "endsection"}
        THEN IF tag = "file"
             THEN Put(c2, tag, Str(rest))
             ELSE Put(Del(c2, tag), "name", Str(rest))
        ELSE c1

\* a shellcheck line: lines 165 to 168
ShellcheckLine(c, text) ==
    LET codes == ShellcheckCodes(text)
    IN  Put(c, "shellcheck",
            List(GetList(c, "shellcheck") \o [i \in 1..Len(codes) |-> Str(codes[i])]))

\* an SPDX line: line 174
SpdxLine(c, text) ==
    Put(c, "SPDX-License-Identifier",
        List(Append(GetList(c, "SPDX-License-Identifier"), Str(text))))

\* cur and last_tag is not None and len(cur.get(last_tag, []))
TagOpen(c, lt) ==
    /\ Truthy(c)
    /\ lt.k # "none"
    /\ Has(c, lt.v)
    /\ Len(c[lt.v].v) > 0

\* cur[last_tag][-1] += re.sub(...) fails on a str: it has no item assignment
ContinuationRaises(c, lt) == c[lt.v].k # "list"

\* the text appended to the last entry of the open tag: line 179
ContinuationText(line) == StripComment(line)

\* a continuation that extends the last entry of every list of cur
Continuation_all(c, lt, line) ==
    [key \in DOMAIN c |->
        IF c[key].k = "list" /\ Len(c[key].v) > 0
        THEN List([c[key].v EXCEPT ![Len(c[key].v)] =
                       Str(c[key].v[Len(c[key].v)].v \o ContinuationText(line))])
        ELSE c[key]]

Continuation(c, lt, line) ==
    LET xs == c[lt.v].v
        n == Len(xs)
    IN  Put(c, lt.v, List([xs EXCEPT ![n] = Str(xs[n].v \o ContinuationText(line))]))

\* re.search(includeregex, name), for an includeregex that is a plain word
IncludeSearch(inc, name) ==
    \E i \in 1..Len(name) : At(name, i, inc)

\* a detection that does not look at the type a tag has set
Undetermined_always(c) == TRUE

\* "type" not in cur
Undetermined(c) == ~Has(c, "type")

\* a condition that lets every declaration through
Attachable_always(c, inc, name) == TRUE

\* cur or (includeregex and re.search(includeregex, name))
Attachable(c, inc, name) == Truthy(c) \/ (inc # "" /\ IncludeSearch(inc, name))

\* lines 187 to 199: the function declaration, with cur's option and arg converted
DetectFunction(c, inc, line) ==
    LET m == FunctionMatch(line)
        c1 == convert_arg_option(c)
    IN  IF Undetermined(c) /\ m.m
        THEN IF Attachable(c1, inc, m.g[1])
             THEN Update(c1, [x \in {"type", "name"} |->
                                 IF x = "type" THEN Str("function") ELSE Str(m.g[1])])
             ELSE c1
        ELSE c

\* the warnings of line 197
DetectWarnings(c, line) ==
    IF Undetermined(c) /\ FunctionMatch(line).m THEN convert_warnings(c) ELSE {}

\* a variable branch that does not look at the line
DetectVariable_any(c, inc, line) ==
    IF Undetermined(c)
    THEN Update(c, [x \in {"type", "name"} |-> IF x = "type" THEN Str("variable") ELSE Str("")])
    ELSE c

\* lines 200 to 212: the variable declaration
DetectVariable(c, inc, line) ==
    LET m == VariableMatch(line)
    IN  IF Undetermined(c) /\ m.m /\ Attachable(c, inc, m.g[1])
        THEN Update(c, [x \in {"type", "name"} |->
                           IF x = "type" THEN Str("variable") ELSE Str(m.g[1])])
        ELSE c

\* (cur and "type" not in cur) or includeregex
Detecting(c, inc) == (Truthy(c) /\ Undetermined(c)) \/ inc # ""

\* cur as it reaches line 214
Classified(c, inc, line) ==
    IF Detecting(c, inc) THEN DetectVariable(DetectFunction(c, inc, line), inc, line) ELSE c

\* the kind a finished element is attached as, or "" (its type is a str only
\* when a file, section or endsection tag or a declaration set it)
KindOf(c) == IF Has(c, "type") /\ c["type"].k = "str" THEN c["type"].v ELSE ""

\* an endsection branch that pops whatever is on top
PopEndsection_unguarded(ps) == SubSeq(ps, 1, Len(ps) - 1)

\* if len(parents) > 1: parents.pop(), of endsection (lines 220, 221)
PopEndsection(ps) == IF Len(ps) > 1 THEN SubSeq(ps, 1, Len(ps) - 1) ELSE ps

\* a section branch that never pops the section before it
PopSection_never(ps) == ps

\* if len(parents) > 1: parents.pop(), of section (lines 225, 226)
PopSection(ps) == IF Len(ps) > 1 THEN SubSeq(ps, 1, Len(ps) - 1) ELSE ps

\* an append that puts the node in the list twice
AppendChild_twice(h, ps, node) ==
    Append([h EXCEPT ![ps[Len(ps)]] =
                Put(h[ps[Len(ps)]], "data",
                    List(h[ps[Len(ps)]]["data"].v \o <<Ref(Len(h) + 1), Ref(Len(h) + 1)>>))],
           node)

\* an append that always goes to the root
AppendChild_to_root(h, ps, node) ==
    Append([h EXCEPT ![1] = Put(h[1], "data", List(Append(h[1]["data"].v, Ref(Len(h) + 1))))],
           node)

\* parents[-1]["data"].append(node), node becoming object Len(h) + 1
AppendChild(h, ps, node) ==
    LET top == ps[Len(ps)]
        id == Len(h) + 1
    IN  Append([h EXCEPT ![top] = Put(h[top], "data", List(Append(h[top]["data"].v, Ref(id))))],
               node)

\* root.update(cur)
UpdateRoot(h, c) == [h EXCEPT ![1] = Update(h[1], c)]

\* lines 214 to 231: the heap after the element is finished
FinishHeap(h, ps, c) ==
    CASE KindOf(c) = "file" -> UpdateRoot(h, c)
      [] KindOf(c) = "section" -> AppendChild(h, PopSection(ps), Put(c, "data", List(<<>>)))
      [] KindOf(c) \in {"function", "variable"} -> AppendChild(h, ps, c)
      [] OTHER -> h

\* lines 214 to 231: the ancestor stack after the element is finished
FinishParents(h, ps, c) ==
    CASE KindOf(c) = "endsection" -> PopEndsection(ps)
      [] KindOf(c) = "section" -> Append(PopSection(ps), Len(h) + 1)
      [] OTHER -> ps

Raise(name) ==
    /\ pc' = "raised"
    /\ exc' = name
    /\ UNCHANGED <<heap, parents, cur, last_tag, log>>

\* a line that starts with "#": lines 144 to 181
CommentLine(line) ==
    LET m == TagMatch(line)
        sc == ShellcheckMatch(line)
        sp == SpdxMatch(line)
    IN  IF m.m
        THEN IF TagRaises(cur, m.g[1])
             THEN Raise("AttributeError")
             ELSE /\ cur' = TagLine(cur, m.g[1], m.g[2])
                  /\ last_tag' = Str(m.g[1])
                  /\ UNCHANGED <<heap, parents, pc, exc, log>>
        ELSE IF sc.m
        THEN /\ cur' = ShellcheckLine(cur, sc.g[1])
             /\ last_tag' = NoneV
             /\ UNCHANGED <<heap, parents, pc, exc, log>>
        ELSE IF sp.m
        THEN /\ cur' = SpdxLine(cur, sp.g[1])
             /\ last_tag' = NoneV
             /\ UNCHANGED <<heap, parents, pc, exc, log>>
        ELSE IF TagOpen(cur, last_tag)
        THEN IF ContinuationRaises(cur, last_tag)
             THEN Raise("TypeError")
             ELSE /\ cur' = Continuation(cur, last_tag, line)
                  /\ UNCHANGED <<heap, parents, last_tag, pc, exc, log>>
        ELSE UNCHANGED <<heap, parents, cur, last_tag, pc, exc, log>>

\* a line that does not start with "#": lines 182 to 233
CodeLine(line) ==
    LET c == Classified(cur, includeregex, line)
    IN  /\ heap' = FinishHeap(heap, parents, c)
        /\ parents' = FinishParents(heap, parents, c)
        /\ log' = log \cup (IF Detecting(cur, includeregex) THEN DetectWarnings(cur, line) ELSE {})
        /\ last_tag' = NoneV
        /\ cur' = EmptyDict
        /\ UNCHANGED <<pc, exc>>

\* one iteration of the for loop over the stream
ReadLine(lines, max) ==
    /\ pc = "loop"
    /\ Len(consumed) < max
    /\ \E line \in lines :
        /\ consumed' = Append(consumed, line)
        /\ IF StartsWithHash(line) THEN CommentLine(line) ELSE CodeLine(line)
    /\ UNCHANGED <<includeregex, found>>

\* the stream ends: lines 234 to 259
EndOfStream ==
    /\ pc = "loop"
    /\ IF Len(parents) = 0 THEN Raise("AssertionError: Too many @endsection")
       ELSE IF ~(heap[1]["type"].k = "str" /\ heap[1]["type"].v = "file")
       THEN Raise("AssertionError: root type")
       ELSE IF first_failure(heap, traverse(heap, 1), 1) # ""
       THEN Raise(first_failure(heap, traverse(heap, 1), 1))
       ELSE /\ heap' = [id \in 1..Len(heap) |->
                           IF id \in see_nodes(heap)
                           THEN convert_see(heap[id], see_keys(heap, id))
                           ELSE heap[id]]
            /\ log' = log \cup unknown_warnings(heap)
            /\ pc' = "returned"
            /\ UNCHANGED <<parents, cur, last_tag, exc>>
    /\ UNCHANGED <<consumed, includeregex, found>>

\* find_name(root, name) on the returned tree
FindName(names) ==
    /\ pc = "returned"
    /\ \E name \in names :
        found' = [name |-> name, elem |-> find_name(heap, name)]
    /\ pc' = "found"
    /\ UNCHANGED <<consumed, includeregex, heap, parents, cur, last_tag, exc, log>>

----------------------------------------------------------------------------
(* parse_stream's state at line 141 *)

root0 == [x \in {"type", "file", "data"} |->
            CASE x = "type" -> Str("file")
              [] x = "file" -> NoneV
              [] x = "data" -> List(<<>>)]

InitWith(includes) ==
    /\ consumed = <<>>
    /\ includeregex \in includes
    /\ heap = <<root0>>
    /\ parents = <<1>>
    /\ cur = EmptyDict
    /\ last_tag = NoneV
    /\ pc = "loop"
    /\ exc = ""
    /\ log = {}
    /\ found = [name |-> "", elem |-> NoneV]

----------------------------------------------------------------------------
(* Inputs: the scripts are the sequences of at most Max... lines drawn     *)
(* from a small catalogue of lines.                                        *)

\* section markers and a declaration line
MaxSectionLines == 8
SectionLines == {"# @section a\n", "# @endsection\n", "foo() {\n"}

InitSections == InitWith({"", "foo"})
NextSections ==
    \/ ReadLine(SectionLines, MaxSectionLines)
    \/ EndOfStream
    \/ FindName({"foo", "a"})
SpecSections == InitSections /\ [][NextSections]_vars

\* option, arg and data tags on declarations and sections
MaxLines == 4
Lines ==
    { "# @option --flag <val>  description text\n",
      "# @option not a flag at all\n",
      "# @arg $1 x\n",
      "# @data x\n",
      "# @section s\n",
      "foo() {\n",
      "var=1\n" }

Init == InitWith({""})
Next == ReadLine(Lines, MaxLines) \/ EndOfStream \/ FindName({"foo", "var"})
Spec == Init /\ [][Next]_vars

\* a tag and its continuation lines
MaxContinuationLines == 5
ContinuationLines == {"# @description a\n", "#\n", "# b # c\n", "foo() {\n"}

InitContinuation == InitWith({""})
NextContinuation ==
    \/ ReadLine(ContinuationLines, MaxContinuationLines)
    \/ EndOfStream
    \/ FindName({"foo"})
SpecContinuation == InitContinuation /\ [][NextContinuation]_vars

\* a file block
MaxFileLines == 4
FileLines ==
    { "# @file\n",
      "# @file x.sh\n",
      "# @description Example.\n",
      "# more\n",
      "# @todo later\n",
      "# @data x\n",
      "name() {\n" }

InitFile == InitWith({"", "na"})
NextFile == ReadLine(FileLines, MaxFileLines) \/ EndOfStream \/ FindName({"name"})
SpecFile == InitFile /\ [][NextFile]_vars

\* see tags
MaxSeeLines == 4
SeeLines ==
    { "# @see foo is useful\n",
      "# @see https://example.com\n",
      "# @see bar unrelated\n",
      "foo() {\n",
      "var=1\n" }

InitSee == InitWith({""})
NextSee == ReadLine(SeeLines, MaxSeeLines) \/ EndOfStream \/ FindName({"foo", "var"})
SpecSee == InitSee /\ [][NextSee]_vars

\* comment blocks, declarations and other code lines, inside and outside sections
MaxBlockLines == 5
BlockLines ==
    { "# @section a\n",
      "# @endsection\n",
      "# @description d\n",
      "foo() {\n",
      "var=1\n",
      "\n" }

InitBlocks == InitWith({"", "fo"})
NextBlocks == ReadLine(BlockLines, MaxBlockLines) \/ EndOfStream \/ FindName({"foo"})
SpecBlocks == InitBlocks /\ [][NextBlocks]_vars

\* a tag whose name is one of the attribute keys of a node
MaxNameLines == 4
NameLines == {"# @name x\n", "# @description d\n", "foo() {\n", "var=1\n", "bar=2\n"}

InitNames == InitWith({"", "fo", "va"})
NextNames == ReadLine(NameLines, MaxNameLines) \/ EndOfStream \/ FindName({"foo", "var"})
SpecNames == InitNames /\ [][NextNames]_vars

\* shellcheck and SPDX directive lines among tags and plain comments
MaxDirectiveLines == 4
DirectiveLines ==
    { "# shellcheck disable=SC1,2\n",
      "# SPDX-License-Identifier: MIT\n",
      "# @shellcheck x\n",
      "# @description a\n",
      "# more\n",
      "foo() {\n" }

InitDirectives == InitWith({""})
NextDirectives ==
    \/ ReadLine(DirectiveLines, MaxDirectiveLines)
    \/ EndOfStream
    \/ FindName({"foo"})
SpecDirectives == InitDirectives /\ [][NextDirectives]_vars

----------------------------------------------------------------------------
(* The source seen as blocks: what the documentation says about the input *)

IsTag(line, tag) == TagMatch(line).m /\ TagMatch(line).g[1] = tag
IsCode(line) == ~StartsWithHash(line)

\* line i is a section (endsection) marker that the next line, a code line, finalizes
Opens(in, i) == IsTag(in[i], "section") /\ i < Len(in) /\ IsCode(in[i + 1])
Closes(in, i) == IsTag(in[i], "endsection") /\ i < Len(in) /\ IsCode(in[i + 1])

\* every marker line of the input is finalized by the line after it
MarkersFinalized(in) ==
    \A i \in 1..Len(in) :
        (IsTag(in[i], "section") \/ IsTag(in[i], "endsection")) => (Opens(in, i) \/ Closes(in, i))

\* sections opened and not yet closed after the first n lines
OpenAfter(in, n) ==
    Cardinality({i \in 1..n : Opens(in, i)}) - Cardinality({i \in 1..n : Closes(in, i)})

Balanced(in) ==
    /\ \A n \in 0..Len(in) : OpenAfter(in, n) >= 0
    /\ OpenAfter(in, Len(in)) = 0

MaxOpen(in) == CHOOSE d \in 0..Len(in) :
    /\ \E n \in 0..Len(in) : OpenAfter(in, n) = d
    /\ \A n \in 0..Len(in) : OpenAfter(in, n) <= d

IsKind(h, id, kind) == Has(h[id], "type") /\ h[id]["type"].k = "str" /\ h[id]["type"].v = kind

\* the section nodes among the children of node id
SectionChildren(h, id) ==
    {h[id]["data"].v[i].v :
        i \in {i \in 1..Len(GetList(h[id], "data")) :
                 /\ h[id]["data"].v[i].k = "ref"
                 /\ IsKind(h, h[id]["data"].v[i].v, "section")}}

\* the greatest depth of a section node below node id (0 when it has none)
RECURSIVE SectionDepth(_, _)
SectionDepth(h, id) ==
    IF SectionChildren(h, id) = {} THEN 0
    ELSE LET ds == {1 + SectionDepth(h, c) : c \in SectionChildren(h, id)}
         IN  CHOOSE d \in ds : \A e \in ds : e <= d

Returned == pc \in {"returned", "found"}

----------------------------------------------------------------------------
(* C1: when an endsection block is finalized while no section is open      *)
(* (more endsection markers than open sections), parse_stream never        *)
(* returns a tree, and the exception that ends it is the structural        *)
(* "Too many @endsection" error.                                           *)

SurplusEndsection(in) == \E n \in 1..Len(in) : OpenAfter(in, n) < 0

C1_SurplusEndsectionFails ==
    SurplusEndsection(consumed) =>
        /\ ~Returned
        /\ pc = "raised" => exc = "AssertionError: Too many @endsection"

(* C2 as stated: for balanced markers the greatest depth of a section node *)
(* of the returned tree equals the greatest number of sections open at the *)
(* same time in the source.                                                *)

C2_DepthEqualsMaxOpen ==
    (Returned /\ MarkersFinalized(consumed) /\ Balanced(consumed)) =>
        SectionDepth(heap, 1) = MaxOpen(consumed)

(* C2 as amended: for balanced markers the greatest depth of a section     *)
(* node of the returned tree is 1 when the source opens a section and 0    *)
(* when it opens none, however many sections are open at the same time: a  *)
(* section met while another is open takes its place on the stack and      *)
(* becomes its sibling.                                                    *)

Min(a, b) == IF a < b THEN a ELSE b

C2_DepthAtMostOne ==
    (Returned /\ MarkersFinalized(consumed) /\ Balanced(consumed)) =>
        SectionDepth(heap, 1) = Min(1, MaxOpen(consumed))

C2_Witness ==
    /\ Returned /\ MarkersFinalized(consumed) /\ Balanced(consumed)
    /\ MaxOpen(consumed) = 2
    /\ SectionDepth(heap, 1) = 1
    /\ Cardinality(SectionChildren(heap, 1)) = 2

(* C5: find_name(root, name) returns the first node, in pre-order, whose   *)
(* name equals the given name (the earliest one when several share it),   *)
(* and none when no node has that name.                                    *)

FirstNamed(h, name) ==
    LET ids == visited(h)
        hits == {i \in 1..Len(ids) : h[ids[i]]["name"].v = name}
    IN  IF hits = {} THEN NoneV
        ELSE Ref(ids[CHOOSE i \in hits : \A j \in hits : i <= j])

C5_FindNameFirst == pc = "found" => found.elem = FirstNamed(heap, found.name)

(* C10: there is one section level.  After any sequence of lines the       *)
(* ancestor stack holds the root and at most one section, and every        *)
(* section node of the tree is a direct child of the root, whatever the    *)
(* number of section tags met without an endsection between them.          *)

C10_OneSectionLevel ==
    /\ Len(parents) \in {1, 2}
    /\ parents[1] = 1
    /\ Len(parents) = 2 => (parents[2] # 1 /\ IsKind(heap, parents[2], "section"))
    /\ \A id \in 1..Len(heap) : SectionChildren(heap, id) # {} => id = 1
    /\ \A id \in 2..Len(heap) : IsKind(heap, id, "section") => id \in SectionChildren(heap, 1)

C10_Witness ==
    /\ pc = "loop"
    /\ \A i \in 1..Len(consumed) : ~IsTag(consumed[i], "endsection")
    /\ Cardinality({i \in 1..Len(consumed) : Opens(consumed, i)}) >= 3
    /\ Cardinality(SectionChildren(heap, 1)) >= 3
    /\ Len(parents) = 2

----------------------------------------------------------------------------
(* C3: a tag opened on one comment line and continued on the next N plain  *)
(* comment lines of a block that gets attached yields exactly one entry    *)
(* for that tag: the tag line's remainder and the N line bodies, in order, *)
(* each followed by a newline, where the body of a line is the line less   *)
(* its leading comment marker and one following space (an empty comment    *)
(* line gives an empty body and its newline; a later "#" is kept).         *)

IsPlainComment(line) ==
    /\ StartsWithHash(line)
    /\ ~TagMatch(line).m /\ ~ShellcheckMatch(line).m /\ ~SpdxMatch(line).m

IsDeclaration(line) == IsCode(line) /\ (FunctionMatch(line).m \/ VariableMatch(line).m)

\* the line, newline included, less its leading "#" and one following space
BodyOf(line) == IF At(line, 1, "# ") THEN Sub(line, 3, Len(line)) ELSE Sub(line, 2, Len(line))

RECURSIVE Bodies(_, _, _)
Bodies(in, a, b) == IF a > b THEN "" ELSE BodyOf(in[a]) \o Bodies(in, a + 1, b)

KindTags == {"section", "file", "endsection"}

\* the input is one block: a tag line, plain comment lines, a declaration line
ContinuedTagBlock(in) ==
    /\ Len(in) >= 2
    /\ TagMatch(in[1]).m
    /\ TagMatch(in[1]).g[1] \notin KindTags \cup {"type", "name", "data", "option", "arg"}
    /\ \A i \in 2..(Len(in) - 1) : IsPlainComment(in[i])
    /\ IsDeclaration(in[Len(in)])

C3_ContinuationConcatenated ==
    (pc = "loop" /\ ContinuedTagBlock(consumed)) =>
        LET tag == TagMatch(consumed[1]).g[1]
            text == TagMatch(consumed[1]).g[2] \o "\n" \o Bodies(consumed, 2, Len(consumed) - 1)
        IN  /\ Len(heap) = 2
            /\ Has(heap[2], tag)
            /\ heap[2][tag] = List(<<Str(text)>>)

(* C4 as stated: for a script whose first comment block is a file tag      *)
(* line, then further tag lines, directly followed by a function           *)
(* declaration line, the root is of kind file and its children are exactly *)
(* one function node of the declared name, which (and not the root)        *)
(* carries the tags that followed the file tag line.                       *)

OrdinaryTag(line) ==
    TagMatch(line).m /\ TagMatch(line).g[1] \notin KindTags \cup {"type", "name", "data"}

FileBlockThenDeclaration(in) ==
    /\ Len(in) >= 3
    /\ IsTag(in[1], "file")
    /\ \A i \in 2..(Len(in) - 1) : OrdinaryTag(in[i])
    /\ IsCode(in[Len(in)]) /\ FunctionMatch(in[Len(in)]).m

\* the entries the tag lines i.. of the block give to tag
RECURSIVE TagEntries(_, _, _)
TagEntries(in, i, tag) ==
    IF i > Len(in) - 1 THEN <<>>
    ELSE (IF IsTag(in[i], tag) THEN <<Str(TagMatch(in[i]).g[2] \o "\n")>> ELSE <<>>)
         \o TagEntries(in, i + 1, tag)

BlockTags(in) == {TagMatch(in[i]).g[1] : i \in 2..(Len(in) - 1)}

CarriesTags(node, in) ==
    \A tag \in BlockTags(in) : Has(node, tag) /\ node[tag] = List(TagEntries(in, 2, tag))

CarriesNoTag(node, in) == \A tag \in BlockTags(in) : ~Has(node, tag)

C4_FunctionCarriesTags ==
    (Returned /\ FileBlockThenDeclaration(consumed)) =>
        /\ IsKind(heap, 1, "file")
        /\ Len(heap) = 2
        /\ heap[1]["data"] = List(<<Ref(2)>>)
        /\ IsKind(heap, 2, "function")
        /\ heap[2]["name"] = Str(FunctionMatch(consumed[Len(consumed)]).g[1])
        /\ CarriesTags(heap[2], consumed)
        /\ CarriesNoTag(heap[1], consumed)

(* C4 as amended: for such a script the root is of kind file and has no    *)
(* children: the declaration line only ends the file block, no function    *)
(* node is made, and the root carries the tags that followed the file tag  *)
(* line.                                                                   *)

C4_RootCarriesTags ==
    (Returned /\ FileBlockThenDeclaration(consumed)) =>
        /\ IsKind(heap, 1, "file")
        /\ Len(heap) = 1
        /\ heap[1]["data"] = List(<<>>)
        /\ CarriesTags(heap[1], consumed)

C4_Witness ==
    /\ Returned
    /\ consumed = <<"# @file\n", "# @description Example.\n", "name() {\n">>
    /\ heap[1]["description"] = List(<<Str("Example.\n")>>)
    /\ heap[1]["data"] = List(<<>>)

----------------------------------------------------------------------------
(* C6: in the returned tree, a see entry whose leading word is the name of *)
(* a node of the tree is an anchor link on that name followed by all the   *)
(* text after the word; otherwise an entry that is a bare URL is a link    *)
(* whose label and target are exactly the URL; every other entry is        *)
(* unchanged.  (The newline that ends an entry is not held against it.)    *)

Anchor(w) == "[" \o w \o "](#" \o w \o ")"
Link(u) == "[" \o u \o "](" \o u \o ")"
LeadingWord(text) == Sub(text, 1, Span(text, 1, WordCh) - 1)
AfterWord(text) == Sub(text, Span(text, 1, WordCh), Len(text))
WithoutNewline(text) ==
    IF Len(text) > 0 /\ Ch(text, Len(text)) = "\n" THEN Sub(text, 1, Len(text) - 1) ELSE text
IsBareUrl(text) ==
    LET u == WithoutNewline(text)
    IN  UrlMatch(u).m /\ SpanNonWS(u, 1) = Len(u) + 1
SeeEntries(node) == GetList(node, "see")
NodeNames(h) == {h[j]["name"].v : j \in 2..Len(h)}

SeeRule(raw, out, names) ==
    IF LeadingWord(raw) # "" /\ LeadingWord(raw) \in names
    THEN out \in {Anchor(LeadingWord(raw)) \o AfterWord(raw),
                  Anchor(LeadingWord(raw)) \o WithoutNewline(AfterWord(raw))}
    ELSE IF IsBareUrl(raw)
         THEN out \in {Link(WithoutNewline(raw)), Link(WithoutNewline(raw)) \o "\n"}
         ELSE out = raw

C6_SeeStep ==
    (pc = "loop" /\ pc' = "returned") =>
        \A id \in 1..Len(heap) : \A idx \in 1..Len(SeeEntries(heap[id])) :
            SeeRule(heap[id]["see"].v[idx].v, heap'[id]["see"].v[idx].v, NodeNames(heap))

C6_SeeRewritten == [][C6_SeeStep]_vars

(* C9: a see entry that names a node declared later than the node holding  *)
(* it is rewritten to an anchor link just as one that names an earlier     *)
(* node: the entries stay as read while lines are consumed, and are        *)
(* rewritten once the stream has ended, against the names of the whole     *)
(* tree.                                                                   *)

NamesAfter(h, id) == {h[j]["name"].v : j \in (id + 1)..Len(h)}
NamesUpTo(h, id) == {h[j]["name"].v : j \in 2..id}
RestOfLine(text) == Sub(text, Span(text, 1, WordCh), SpanDot(text, Span(text, 1, WordCh)) - 1)

C9_Resolved ==
    (pc = "loop" /\ pc' = "returned") =>
        \A id \in 2..Len(heap) : \A idx \in 1..Len(SeeEntries(heap[id])) :
            LET raw == heap[id]["see"].v[idx].v
            IN  LeadingWord(raw) \in NamesAfter(heap, id) \cup NamesUpTo(heap, id) =>
                    heap'[id]["see"].v[idx] = Str(Anchor(LeadingWord(raw)) \o RestOfLine(raw))

C9_NotBefore ==
    pc' = "loop" => \A id \in 2..Len(heap) : SeeEntries(heap'[id]) = SeeEntries(heap[id])

C9_ForwardSeeResolved == [][C9_Resolved /\ C9_NotBefore]_vars

C9_Witness ==
    /\ Returned
    /\ \E id \in 2..Len(heap) : \E idx \in 1..Len(SeeEntries(heap[id])) :
        /\ heap[id]["see"].v[idx] = Str("[foo](#foo) is useful")
        /\ "foo" \in NamesAfter(heap, id)
        /\ "foo" \notin NamesUpTo(heap, id)

----------------------------------------------------------------------------
(* C7 as stated: in the returned tree every option and arg entry of every  *)
(* node, whatever its kind, is a {code, description} pair; none is a raw   *)
(* string.                                                                 *)

OptionKeys == {"option", "arg"}

C7_AllNodesStructured ==
    Returned =>
        \A id \in 1..Len(heap) : \A key \in OptionKeys \cap DOMAIN heap[id] :
            \A idx \in 1..Len(heap[id][key].v) : heap[id][key].v[idx].k = "dict"

(* C7 as amended: every option and arg entry of every function node is a   *)
(* {code, description} pair: the split parts when the entry matches the    *)
(* flag/environment-variable pattern, and {code: "", description: the      *)
(* original text} with a warning when it does not; the option and arg      *)
(* entries of file, section and variable nodes stay raw strings.           *)

IsPrefix(a, b) == Len(a) <= Len(b) /\ Sub(b, 1, Len(a)) = a
IsSuffix(a, b) == Len(a) <= Len(b) /\ Sub(b, Len(b) - Len(a) + 1, Len(b)) = a

SplitRule(raw, out, key, warnings) ==
    /\ out.k = "dict"
    /\ IF ArgOptionMatch(raw).m
       THEN /\ out.v.code # ""
            /\ IsPrefix(out.v.code, Sub(raw, Span(raw, 1, WS), Len(raw)))
            /\ IsSuffix(out.v.description, WithoutNewline(raw))
       ELSE /\ out.v = [code |-> "", description |-> raw]
            /\ Warning("invalid", key, raw, 0) \in warnings

C7_Kinds ==
    \A id \in 1..Len(heap) : \A key \in OptionKeys \cap DOMAIN heap[id] :
        \A idx \in 1..Len(heap[id][key].v) :
            heap[id][key].v[idx].k = (IF IsKind(heap, id, "function") THEN "dict" ELSE "str")

C7_Split ==
    (pc = "loop" /\ Len(heap') = Len(heap) + 1 /\ IsKind(heap', Len(heap'), "function")) =>
        \A key \in OptionKeys \cap DOMAIN cur :
            /\ Has(heap'[Len(heap')], key)
            /\ Len(heap'[Len(heap')][key].v) = Len(cur[key].v)
            /\ \A idx \in 1..Len(cur[key].v) :
                SplitRule(cur[key].v[idx].v, heap'[Len(heap')][key].v[idx], key, log')

C7_FunctionsStructured == [](C7_Kinds) /\ [][C7_Split]_vars

C7_Witness ==
    /\ Returned
    /\ \E id \in 2..Len(heap) :
        /\ IsKind(heap, id, "function")
        /\ Has(heap[id], "option") /\ Has(heap[id], "arg")
        /\ heap[id]["option"] = List(<<Pair("--flag <val>", "description text"),
                                      Pair("", "not a flag at all\n")>>)
        /\ heap[id]["arg"] = List(<<Pair("$1", "x")>>)
    /\ Warning("invalid", "option", "not a flag at all\n", 0) \in log

(* C8: parse_stream aborts only on the two structural failures (too many   *)
(* endsection markers, a root that is not of kind file); any other input,  *)
(* unknown tags for a node's kind and malformed option or arg text         *)
(* included, runs to completion.                                           *)

StructuralFailures == {"AssertionError: Too many @endsection", "AssertionError: root type"}

C8_OnlyStructuralFailures == pc = "raised" => exc \in StructuralFailures

----------------------------------------------------------------------------
\* the step consumes a line that does not start with "#"
CodeStep == pc = "loop" /\ Len(consumed') = Len(consumed) + 1 /\ IsCode(consumed'[Len(consumed')])

\* the step consumes a line that starts with "#"
CommentStep == pc = "loop" /\ Len(consumed') = Len(consumed) + 1 /\ ~IsCode(consumed'[Len(consumed')])

(* C11: after any sequence of lines the ancestor stack is non-empty and    *)
(* its bottom element is the root; an endsection finalized when only the   *)
(* root is on the stack leaves the stack (and the tree) unchanged; the     *)
(* parse never ends on the stack-length assertion.                         *)

C11_Stack ==
    /\ Len(parents) >= 1
    /\ parents[1] = 1
    /\ exc # "AssertionError: Too many @endsection"

C11_EndsectionAtRoot ==
    (CodeStep /\ KindOf(cur) = "endsection" /\ Len(parents) = 1) =>
        (parents' = parents /\ heap' = heap)

C11_RootNeverPopped == [](C11_Stack) /\ [][C11_EndsectionAtRoot]_vars

C11_Witness ==
    /\ Returned
    /\ SurplusEndsection(consumed)
    /\ parents = <<1>>

(* C12: finalizing a function or variable element appends it as the last  *)
(* child of the node on top of the ancestor stack and changes neither the  *)
(* stack nor anything else in the tree.  The top of the stack is the root  *)
(* at the start and after an endsection is finalized, the new section node *)
(* after a section is finalized, and no other line changes the stack: so a *)
(* function or variable finalized after a section and before the next      *)
(* section or endsection is a child of that section, and one finalized     *)
(* after an endsection or before any section is a child of the root.       *)

Top(ps) == ps[Len(ps)]

\* the step attaches a new node of one of the kinds
Attaches(kinds) ==
    /\ Len(heap') = Len(heap) + 1
    /\ \E kind \in kinds : IsKind(heap', Len(heap'), kind)

C12_Appended ==
    (CodeStep /\ Attaches({"function", "variable"})) =>
        /\ parents' = parents
        /\ heap'[Top(parents)]["data"] =
               List(Append(heap[Top(parents)]["data"].v, Ref(Len(heap'))))
        /\ \A id \in 1..Len(heap) : \A key \in DOMAIN heap[id] :
               (id # Top(parents) \/ key # "data") =>
                   (Has(heap'[id], key) /\ heap'[id][key] = heap[id][key])

C12_StackTop ==
    /\ (CodeStep /\ KindOf(cur) = "section") =>
           (Attaches({"section"}) /\ Top(parents') = Len(heap'))
    /\ (CodeStep /\ KindOf(cur) = "endsection") => Top(parents') = 1
    /\ (CodeStep /\ KindOf(cur) \notin {"section", "endsection"}) => parents' = parents
    /\ ~CodeStep => parents' = parents

C12_ChildOfStackTop == [](Top(parents) = 1 \/ IsKind(heap, Top(parents), "section"))
                       /\ [][C12_Appended /\ C12_StackTop]_vars

\* a documented function attached under an open section
C12_Witness ==
    /\ pc = "loop"
    /\ Len(heap) = 3
    /\ IsKind(heap, 2, "section") /\ IsKind(heap, 3, "function")
    /\ Has(heap[3], "description")
    /\ heap[2]["data"] = List(<<Ref(3)>>)
    /\ heap[1]["data"] = List(<<Ref(2)>>)
    /\ parents = <<1, 2>>

(* C13 as stated: when no include pattern is given, every function and variable     *)
(* node of the tree carries at least one accumulated tag entry; when an    *)
(* include pattern is given, a declaration line read with no accumulated   *)
(* data is attached exactly when its name matches the pattern.             *)

\* the keys of a node that hold accumulated entries
EntryKeys(node) ==
    {key \in DOMAIN node \ {"type", "name"} : node[key].k = "list" /\ Len(node[key].v) > 0}

\* the name a declaration line declares, or ""
DeclaredName(line) ==
    IF FunctionMatch(line).m THEN FunctionMatch(line).g[1]
    ELSE IF VariableMatch(line).m THEN VariableMatch(line).g[1]
    ELSE ""

\* the pattern, a plain word, is found in the name
Contains(name, pat) ==
    \E i \in 1..(Len(name) - Len(pat) + 1) : Sub(name, i, i + Len(pat) - 1) = pat

C13_Documented ==
    includeregex = "" =>
        \A id \in 2..Len(heap) :
            (IsKind(heap, id, "function") \/ IsKind(heap, id, "variable")) =>
                EntryKeys(heap[id]) # {}

C13_Included ==
    (CodeStep /\ includeregex # "" /\ cur = EmptyDict
        /\ IsDeclaration(consumed'[Len(consumed')])) =>
        (Attaches({"function", "variable"})
            <=> Contains(DeclaredName(consumed'[Len(consumed')]), includeregex))

C13_DocumentedOrIncluded == [](C13_Documented) /\ [][C13_Included]_vars

(* C13 as amended: when no include pattern is given, a function or        *)
(* variable node is attached only from a block that had accumulated at     *)
(* least one entry when its declaration line was read, and the node        *)
(* carries every accumulated entry except those under the key name, which  *)
(* the declared name replaces (so a block holding only name tags gives a   *)
(* node without any tag entry); when an include pattern is given, a        *)
(* declaration line read with no accumulated data is attached exactly when *)
(* its name matches the pattern.                                           *)

AccumulatedKeys(c) == {key \in DOMAIN c : c[key].k = "list" /\ Len(c[key].v) > 0}

C13_Gate ==
    (CodeStep /\ includeregex = "" /\ Attaches({"function", "variable"})) =>
        /\ AccumulatedKeys(cur) # {}
        /\ \A key \in AccumulatedKeys(cur) \ {"name"} :
               /\ key \in EntryKeys(heap'[Len(heap')])
               /\ Len(heap'[Len(heap')][key].v) = Len(cur[key].v)
        /\ heap'[Len(heap')]["name"] = Str(DeclaredName(consumed'[Len(consumed')]))

C13_GateOrIncluded == [][C13_Gate /\ C13_Included]_vars

C13_Witness ==
    /\ includeregex = ""
    /\ consumed = <<"# @name x\n", "foo() {\n">>
    /\ Len(heap) = 2
    /\ heap[2] = [x \in {"type", "name"} |-> IF x = "type" THEN Str("function") ELSE Str("foo")]

----------------------------------------------------------------------------
(* C14 as stated: every non-comment line resets the current element to     *)
(* empty and the last-tag pointer to none; a comment block whose next line *)
(* is not a recognized declaration is discarded: it is not attached and    *)
(* the tree stays as it was.                                               *)

Reset == cur' = EmptyDict /\ last_tag' = NoneV

C14_Step ==
    CodeStep =>
        /\ Reset
        /\ (cur # EmptyDict /\ ~IsDeclaration(consumed'[Len(consumed')])) => heap' = heap

C14_BlockDiscarded == [][C14_Step]_vars

(* C14 as amended: every non-comment line resets the current element to    *)
(* empty and the last-tag pointer to none; a comment block that holds no   *)
(* file, section or endsection tag and whose next line is not a recognized *)
(* declaration is discarded: tree and ancestor stack stay as they were.    *)
(* (A block that holds a file, section or endsection tag takes effect on   *)
(* any non-comment line.)                                                  *)

C14_UntypedStep ==
    CodeStep =>
        /\ Reset
        /\ (cur # EmptyDict /\ KindOf(cur) \notin KindTags
                /\ ~IsDeclaration(consumed'[Len(consumed')])) =>
               (heap' = heap /\ parents' = parents)

C14_UntypedBlockDiscarded == [][C14_UntypedStep]_vars

\* a block dropped at a blank line left nothing in the node attached next
C14_Witness ==
    /\ includeregex = "fo"
    /\ consumed = <<"# @description d\n", "\n", "foo() {\n">>
    /\ Len(heap) = 2
    /\ DOMAIN heap[2] = {"type", "name"}

----------------------------------------------------------------------------
(* C15 as stated: a plain comment line changes at most the last entry of   *)
(* the tag the last-tag pointer names, by appending to it; a shellcheck or *)
(* SPDX directive line sets the pointer to none, and while it is none a    *)
(* plain comment line changes nothing of the current element; no plain     *)
(* comment line ever changes the shellcheck or the SPDX list.              *)

DirectiveKeys == {"shellcheck", "SPDX-License-Identifier"}

IsDirective(line) ==
    StartsWithHash(line) /\ ~TagMatch(line).m /\ (ShellcheckMatch(line).m \/ SpdxMatch(line).m)

PlainStep == CommentStep /\ IsPlainComment(consumed'[Len(consumed')])

\* under key, cur' has the entries of cur, the last one possibly longer
OnlyLastEntryGrows(key) ==
    \/ cur'[key] = cur[key]
    \/ /\ cur'[key].k = "list" /\ cur[key].k = "list"
       /\ Len(cur'[key].v) = Len(cur[key].v)
       /\ \A i \in 1..(Len(cur[key].v) - 1) : cur'[key].v[i] = cur[key].v[i]
       /\ Len(cur[key].v) > 0 =>
              IsPrefix(cur[key].v[Len(cur[key].v)].v, cur'[key].v[Len(cur[key].v)].v)

C15_OnlyOpenTag ==
    PlainStep =>
        /\ DOMAIN cur' = DOMAIN cur
        /\ last_tag' = last_tag
        /\ last_tag.k = "none" => cur' = cur
        /\ \A key \in DOMAIN cur :
               IF last_tag.k # "none" /\ key = last_tag.v
               THEN OnlyLastEntryGrows(key)
               ELSE cur'[key] = cur[key]

C15_PointerCleared ==
    (CommentStep /\ IsDirective(consumed'[Len(consumed')])) =>
        /\ last_tag' = NoneV
        /\ \A key \in DOMAIN cur \ DirectiveKeys : Has(cur', key) /\ cur'[key] = cur[key]

C15_ListsUntouched ==
    PlainStep => \A key \in DirectiveKeys \cap DOMAIN cur : cur'[key] = cur[key]

C15_ContinuationOnlyOpenTag ==
    [][C15_OnlyOpenTag /\ C15_PointerCleared /\ C15_ListsUntouched]_vars

(* C15 as amended: the same, except that the shellcheck list receives      *)
(* continuation text, in its last entry, while a tag-start line named      *)
(* shellcheck is the last tag-start line of the block (that entry is the   *)
(* one the tag line put there); in every other case no plain comment line  *)
(* changes the shellcheck list, and none ever changes the SPDX list.       *)

C15_DirectiveListsUntouched ==
    PlainStep =>
        \A key \in DirectiveKeys \cap DOMAIN cur :
            last_tag # Str(key) => cur'[key] = cur[key]

C15_ContinuationOnlyLastTag ==
    [][C15_OnlyOpenTag /\ C15_PointerCleared /\ C15_DirectiveListsUntouched]_vars

\* plain comment lines after a directive were dropped, the one after the tag was kept
C15_Witness ==
    /\ pc = "loop"
    /\ consumed = <<"# @description a\n", "# more\n", "# shellcheck disable=SC1,2\n", "# more\n">>
    /\ cur["description"] = List(<<Str("a\nmore\n")>>)
    /\ cur["shellcheck"] = List(<<Str("SC1"), Str("SC2")>>)
    /\ last_tag = NoneV

----------------------------------------------------------------------------
(* C16 as stated: an element is attached the moment its kind is known: a   *)
(* section element on the very line carrying its section tag, a file       *)
(* element (its file attribute reaching the root) on the very line         *)
(* carrying its file tag, a function or variable element only on a code    *)
(* line that matches a declaration pattern; each element is attached at    *)
(* most once.                                                              *)

LastLine == consumed'[Len(consumed')]

\* the places (parent, position) where node id is held as a child
Places(h, id) ==
    {pi \in (1..Len(h)) \X (1..Len(h)) :
        /\ Has(h[pi[1]], "data") /\ h[pi[1]]["data"].k = "list"
        /\ pi[2] <= Len(h[pi[1]]["data"].v)
        /\ h[pi[1]]["data"].v[pi[2]] = Ref(id)}

AttachedAtMostOnce == \A id \in 2..Len(heap) : Cardinality(Places(heap, id)) <= 1

C16_DeclarationOnCodeLine ==
    /\ Len(heap') <= Len(heap) + 1
    /\ Attaches({"function", "variable"}) => (CodeStep /\ IsDeclaration(LastLine))

C16_OnTagLine ==
    /\ (CommentStep /\ IsTag(LastLine, "section") /\ pc' = "loop") => Attaches({"section"})
    /\ (CommentStep /\ IsTag(LastLine, "file") /\ pc' = "loop") =>
           heap'[1]["file"] = Str(TagMatch(LastLine).g[2])

C16_AttachedWhenKindKnown ==
    [](AttachedAtMostOnce) /\ [][C16_OnTagLine /\ C16_DeclarationOnCodeLine]_vars

(* C16 as amended: an element is attached on the first non-comment line    *)
(* after its comment block, never on a comment line: a section or file     *)
(* element on whatever non-comment line follows the block that carries its *)
(* tag (a block the stream ends on is never attached), a function or       *)
(* variable element only on a code line that matches a declaration         *)
(* pattern; each element is attached at most once.                         *)

C16_OnCodeLine ==
    /\ CommentStep => (heap' = heap /\ parents' = parents)
    /\ (CodeStep /\ KindOf(cur) = "section") =>
           /\ Attaches({"section"})
           /\ heap'[Len(heap')]["name"] = cur["name"]
           /\ Cardinality(Places(heap', Len(heap'))) = 1
    /\ (CodeStep /\ KindOf(cur) = "file") =>
           /\ Len(heap') = Len(heap)
           /\ \A key \in DOMAIN cur : Has(heap'[1], key) /\ heap'[1][key] = cur[key]
    /\ Attaches({"section"}) => (CodeStep /\ KindOf(cur) = "section")
    /\ pc' # "loop" => Len(heap') = Len(heap)

C16_AttachedOnCodeLine ==
    [](AttachedAtMostOnce) /\ [][C16_OnCodeLine /\ C16_DeclarationOnCodeLine]_vars

\* the section tag line attached nothing; the blank line after it did
C16_Witness ==
    /\ pc = "loop"
    /\ consumed = <<"# @section a\n", "\n">>
    /\ Len(heap) = 2
    /\ IsKind(heap, 2, "section")
    /\ heap[1]["data"] = List(<<Ref(2)>>)

----------------------------------------------------------------------------
(* C17: while the last tag-start line is a file, section or endsection     *)
(* tag line, whatever its remainder, a plain comment line is inert: it     *)
(* changes neither the current element nor the tree, and the parse goes    *)
(* on.                                                                     *)

C17_Inert ==
    (pc = "loop" /\ Len(consumed') = Len(consumed) + 1 /\ IsPlainComment(LastLine)
        /\ last_tag.k = "str" /\ last_tag.v \in KindTags) =>
        (cur' = cur /\ heap' = heap /\ parents' = parents /\ pc' = "loop")

C17_CommentAfterKindTagInert == [][C17_Inert]_vars

----------------------------------------------------------------------------
(* C18: in the returned tree every node, the root included, has a warning  *)
(* in the log for each of its keys that is neither in the known-tag list   *)
(* of its kind nor a universal attribute.                                  *)

UnknownKeys(node) == (DOMAIN node) \ (KNOWN_TAGS(node["type"].v) \cup COMMON_TAGS)

TreeNodes(h) == {1} \cup {visited(h)[i] : i \in 1..Len(visited(h))}

C18_EveryNodeDiagnosed ==
    Returned =>
        \A id \in TreeNodes(heap) : \A key \in UnknownKeys(heap[id]) :
            Warning("unknown", key, "", id) \in log

(* C19: while lines are read the children list of every node only grows:   *)
(* its earlier entries stay, at their positions, after every line, a line  *)
(* that finalizes a file block included; and only file and section nodes   *)
(* hold children, each child being a node.                                 *)

ChildrenOf(node) == IF Has(node, "data") /\ node["data"].k = "list" THEN node["data"].v ELSE <<>>

C19_Grow ==
    (pc = "loop" /\ pc' = "loop") =>
        \A id \in 1..Len(heap) :
            /\ Len(ChildrenOf(heap'[id])) >= Len(ChildrenOf(heap[id]))
            /\ \A i \in 1..Len(ChildrenOf(heap[id])) :
                   ChildrenOf(heap'[id])[i] = ChildrenOf(heap[id])[i]

C19_Holders ==
    \A id \in 1..Len(heap) :
        /\ ChildrenOf(heap[id]) # <<>> => (IsKind(heap, id, "file") \/ IsKind(heap, id, "section"))
        /\ \A i \in 1..Len(ChildrenOf(heap[id])) : ChildrenOf(heap[id])[i].k = "ref"

C19_ChildrenOnlyGrow == [](C19_Holders) /\ [][C19_Grow]_vars

====
